---- MODULE Spec2Model ----
(***************************************************************************)
(* LLMCritic (src/validator/main.py): a validator that asks a critic LLM   *)
(* to score a value on named metrics and decides Pass / Fail.              *)
(*                                                                         *)
(* Modelling conventions                                                   *)
(*  - A metric name / JSON key is a one-letter string; LowerChar is        *)
(*    str.lower() on it.                                                   *)
(*  - A JSON value inside an object is a record [t, n]: t = "num" (an      *)
(*    integer n), t = "bool" (true: n = 1, Python's bool is an int) or     *)
(*    t = "str" (a JSON string, n unused).                                 *)
(*  - A critic text is a record [top, items]: top is the shape of the text *)
(*    ("garbage": not JSON, "number", "list", "string", "object"), items   *)
(*    the key/value pairs in textual order (for a list or a string: the    *)
(*    elements / characters, in the key field).                            *)
(*  - self.metrics is a Python dict: a sequence of [name, threshold] with  *)
(*    distinct names, iterated in insertion order.                         *)
(***************************************************************************)
EXTENDS Integers, Sequences, FiniteSets, TLC

\* ------------------------------------------------------------- bounds
MaxScoreBound == 2
NumCalls == 2

\* ------------------------------------------------------------ domains
Keys == {"a", "A", "b"}
Calls == 1..NumCalls
MaxScores == 1..MaxScoreBound
Thresholds == 0..MaxScoreBound
Scores == 0..(MaxScoreBound + 1)
CandidateValues == {"text"}
DefaultLlmCallable == "gpt-3.5-turbo"

Num(n) == [t |-> "num", n |-> n]
JsonTrue == [t |-> "bool", n |-> 1]
JsonStr == [t |-> "str", n |-> 0]
JsonValues == {Num(n) : n \in Scores} \cup {JsonTrue, JsonStr}

SeqsUpTo(S, n) == UNION {[1..k -> S] : k \in 0..n}

\* The inputs are enumerated up to the order in which unrelated names are
\* written: a dict is built in the order a, A, b, and a JSON object writes
\* the keys of one letter (a and A, in either order) before those of the next.
DictOrder(k) == CASE k = "a" -> 1 [] k = "A" -> 2 [] OTHER -> 3
Letter(k) == CASE k = "b" -> 2 [] OTHER -> 1

\* The metrics argument of the constructor: a dict name -> {threshold}.
MetricDicts ==
    {s \in SeqsUpTo([name : Keys, threshold : Thresholds], Cardinality(Keys)) :
        \A i, j \in 1..Len(s) : i < j => DictOrder(s[i].name) < DictOrder(s[j].name)}

Pair(k, v) == [key |-> k, val |-> v]
Text(top, items) == [top |-> top, items |-> items]

ObjectTexts ==
    {Text("object", s) : s \in
        {q \in SeqsUpTo([key : Keys, val : JsonValues], Cardinality(Keys)) :
            \A i, j \in 1..Len(q) :
                i < j => /\ q[i].key # q[j].key
                         /\ Letter(q[i].key) <= Letter(q[j].key)}}
ElemSeqs == SeqsUpTo([key : Keys, val : {JsonStr}], 1)
OtherTexts ==
    {Text("garbage", <<>>), Text("number", <<>>)}
        \cup {Text("list", s) : s \in ElemSeqs}
        \cup {Text("string", s) : s \in ElemSeqs}

\* What completion(...) can do: raise, answer with no content, answer a text.
Completion(kind, text) == [kind |-> kind, text |-> text]
NoText == Text("garbage", <<>>)
Completions ==
    {Completion("raise", NoText), Completion("none", NoText)}
        \cup {Completion("text", t) : t \in ObjectTexts \cup OtherTexts}

\* -------------------------------------------------------------- state
VARIABLES
    ctor,                    \* "none" | "ok" | "ValueError": outcome of __init__
    arg_metrics,             \* the metrics argument given to __init__
    arg_max_score,           \* the max_score argument given to __init__
    metrics,                 \* self.metrics
    max_score,               \* self.max_score
    llm_callable,            \* self.llm_callable
    pc,                      \* per validate call: position in validate
    prompt,                  \* per call: local prompt
    raw,                     \* per call: the critic's text as the critic wrote it
    llm_response,            \* per call: local llm_response
    evaluation,              \* per call: local evaluation
    idx,                     \* per call: position of the for loop in self.metrics
    failed_metrics,          \* per call: local list
    missing_invalid_metrics, \* per call: local list
    result,                  \* per call: what validate returned or raised
    steps                    \* per call: the steps this call has performed

inst == <<ctor, arg_metrics, arg_max_score, metrics, max_score, llm_callable>>
locals == <<pc, prompt, raw, llm_response, evaluation, idx, failed_metrics,
            missing_invalid_metrics, result, steps>>
vars == <<inst, locals>>

\* ------------------------------------------------------ pure functions
\* Mutant: the response is not lowercased.
LowerCharNone(k) == k

\* str.lower() on a one-letter name.
LowerChar(k) == CASE k = "A" -> "a" [] k = "B" -> "b" [] OTHER -> k

\* response.strip().lower() on a critic text: every letter of the text is
\* lowercased (keys, list elements, string contents); digits are unchanged
\* and surrounding whitespace carries no content.
StripLower(t) ==
    Text(t.top, [i \in 1..Len(t.items) |-> Pair(LowerChar(t.items[i].key), t.items[i].val)])

\* The keys written in a sequence of pairs.
KeysOf(items) == {items[i].key : i \in 1..Len(items)}

\* json.loads keeps the last value given for a repeated key.
LastIndex(items, k) ==
    CHOOSE i \in 1..Len(items) :
        /\ items[i].key = k
        /\ \A j \in 1..Len(items) : items[j].key = k => j <= i

\* A Python value json.loads returns: [top, map, elems].
PyValue(top, map, elems) == [top |-> top, map |-> map, elems |-> elems]
EmptyMap == [k \in {} |-> JsonStr]
NoValue == PyValue("none", EmptyMap, {})

\* json.loads(text): TRUE when it raises.
JsonLoadsRaises(t) == t.top = "garbage"

\* json.loads(text) for a text it accepts.
JsonLoads(t) ==
    IF t.top = "object"
    THEN PyValue("dict", [k \in KeysOf(t.items) |-> t.items[LastIndex(t.items, k)].val], {})
    ELSE PyValue(t.top, EmptyMap, KeysOf(t.items))

\* get_evaluation_prompt: the prompt is a function of value, metrics, max_score.
get_evaluation_prompt(value) ==
    [value |-> value, metrics |-> metrics, max_score |-> max_score]
NoPrompt == [value |-> "", metrics |-> <<>>, max_score |-> 0]

\* The two RuntimeErrors validate raises, told apart by their message.
CriticUnavailable ==
    [kind |-> "RuntimeError", msg |-> "Error getting response from the LLM", names |-> <<>>]
CriticResponseMalformed ==
    [kind |-> "RuntimeError", msg |-> "Error parsing the LLM response as a JSON object", names |-> <<>>]
\* An exception of the loop that validate does not catch.
UncaughtTypeError == [kind |-> "TypeError", msg |-> "", names |-> <<>>]
PassResult == [kind |-> "Pass", msg |-> "", names |-> <<>>]
FailMissingInvalid(names) ==
    [kind |-> "Fail", msg |-> "missing or has invalid evaluations", names |-> names]
FailBelowThreshold(names) ==
    [kind |-> "Fail", msg |-> "failed the following metrics", names |-> names]
NoResult == [kind |-> "none", msg |-> "", names |-> <<>>]

\* `metric in evaluation` raises TypeError: the value is not a container.
InRaises(ev) == ev.top = "number"

\* Mutant: a response holding a key that is no metric counts as not holding
\* the metric.
InNoExtraKeys(metric, ev) ==
    IF ev.top = "dict"
    THEN /\ metric \in DOMAIN ev.map
         /\ DOMAIN ev.map \subseteq {metrics[i].name : i \in 1..Len(metrics)}
    ELSE metric \in ev.elems

\* `metric in evaluation`: dict key, list element, substring of a string.
In(metric, ev) ==
    IF ev.top = "dict" THEN metric \in DOMAIN ev.map ELSE metric \in ev.elems

\* `evaluation[metric] > 0` raises TypeError: a str index into a list or a
\* string, or a str compared with an int.
ScoreRaises(metric, ev) ==
    \/ ev.top # "dict"
    \/ ev.map[metric].t = "str"

\* Mutant: a score equal to max_score is out of range.
InRangeStrict(metric, ev) ==
    /\ ev.map[metric].n > 0
    /\ ev.map[metric].n < max_score

\* evaluation[metric] > 0 and evaluation[metric] <= self.max_score
InRange(metric, ev) ==
    /\ ev.map[metric].n > 0
    /\ ev.map[metric].n <= max_score

\* Mutant: a score equal to the threshold fails.
BelowOrAtThreshold(metric, ev, threshold) == ev.map[metric].n <= threshold

\* evaluation[metric] < threshold
BelowThreshold(metric, ev, threshold) == ev.map[metric].n < threshold

\* Mutant: the below-threshold list is looked at first.
VerdictBelowFirst(missing, failed) ==
    IF failed # <<>> THEN FailBelowThreshold(failed)
    ELSE IF missing # <<>> THEN FailMissingInvalid(missing)
    ELSE PassResult

\* Steps 5.1 - 5.3 of validate.
Verdict(missing, failed) ==
    IF missing # <<>> THEN FailMissingInvalid(missing)
    ELSE IF failed # <<>> THEN FailBelowThreshold(failed)
    ELSE PassResult

\* ---------------------------------------------------------- operations
\* Mutant: a threshold equal to max_score is refused.
InitRaisesAtMax(m, ms) ==
    \/ m = <<>>
    \/ \E i \in 1..Len(m) : m[i].threshold >= ms

\* The two checks of __init__: TRUE when it raises ValueError.
InitRaises(m, ms) ==
    \/ m = <<>>
    \/ \E i \in 1..Len(m) : m[i].threshold > ms

\* LLMCritic(metrics, max_score): raises, or stores its arguments on self.
Construct ==
    /\ ctor = "none"
    /\ \E m \in MetricDicts, ms \in MaxScores :
        /\ arg_metrics' = m
        /\ arg_max_score' = ms
        /\ IF InitRaises(m, ms)
           THEN /\ ctor' = "ValueError"
                /\ UNCHANGED <<metrics, max_score, llm_callable>>
           ELSE /\ ctor' = "ok"
                /\ metrics' = m
                /\ max_score' = ms
                /\ llm_callable' = DefaultLlmCallable
    /\ UNCHANGED locals

\* validate, step 1: prompt = self.get_evaluation_prompt(value).
validate_call(c) ==
    /\ ctor = "ok"
    /\ pc[c] = "idle"
    /\ \E value \in CandidateValues :
        prompt' = [prompt EXCEPT ![c] = get_evaluation_prompt(value)]
    /\ pc' = [pc EXCEPT ![c] = "call_llm"]
    /\ steps' = [steps EXCEPT ![c] = <<"prompt">>]
    /\ UNCHANGED <<inst, raw, llm_response, evaluation, idx, failed_metrics,
                   missing_invalid_metrics, result>>

\* Mutant: a failed completion is tried again.
get_llm_response_retry(c, answers) ==
    /\ pc[c] = "call_llm"
    /\ \E a \in answers :
        /\ raw' = [raw EXCEPT ![c] = a]
        /\ IF a.kind = "text"
           THEN /\ llm_response' = [llm_response EXCEPT ![c] = StripLower(a.text)]
                /\ pc' = [pc EXCEPT ![c] = "parse"]
           ELSE UNCHANGED <<llm_response, pc>>
    /\ steps' = [steps EXCEPT ![c] = Append(@, "critic")]
    /\ UNCHANGED <<inst, prompt, evaluation, idx, failed_metrics,
                   missing_invalid_metrics, result>>

\* validate, step 2: llm_response = self.get_llm_response(prompt). One call
\* of completion; any exception of the try block (the call itself, or
\* .strip() on a None content) is re-raised as a RuntimeError.
get_llm_response(c, answers) ==
    /\ pc[c] = "call_llm"
    /\ \E a \in answers :
        /\ raw' = [raw EXCEPT ![c] = a]
        /\ IF a.kind = "text"
           THEN /\ llm_response' = [llm_response EXCEPT ![c] = StripLower(a.text)]
                /\ pc' = [pc EXCEPT ![c] = "parse"]
                /\ UNCHANGED result
           ELSE /\ result' = [result EXCEPT ![c] = CriticUnavailable]
                /\ pc' = [pc EXCEPT ![c] = "done"]
                /\ UNCHANGED llm_response
    /\ steps' = [steps EXCEPT ![c] = Append(@, "critic")]
    /\ UNCHANGED <<inst, prompt, evaluation, idx, failed_metrics,
                   missing_invalid_metrics>>

\* validate, step 3: evaluation = json.loads(llm_response), and the two
\* empty lists of step 4.
json_loads(c) ==
    /\ pc[c] = "parse"
    /\ IF JsonLoadsRaises(llm_response[c])
       THEN /\ result' = [result EXCEPT ![c] = CriticResponseMalformed]
            /\ pc' = [pc EXCEPT ![c] = "done"]
            /\ UNCHANGED <<evaluation, idx, failed_metrics, missing_invalid_metrics>>
       ELSE /\ evaluation' = [evaluation EXCEPT ![c] = JsonLoads(llm_response[c])]
            /\ failed_metrics' = [failed_metrics EXCEPT ![c] = <<>>]
            /\ missing_invalid_metrics' = [missing_invalid_metrics EXCEPT ![c] = <<>>]
            /\ idx' = [idx EXCEPT ![c] = 1]
            /\ pc' = [pc EXCEPT ![c] = "loop"]
            /\ UNCHANGED result
    /\ steps' = [steps EXCEPT ![c] = Append(@, "parse")]
    /\ UNCHANGED <<inst, prompt, raw, llm_response>>

\* The loop body's outcome for one metric: "raise", "missing", "failed", "ok".
Classify(metric, threshold, ev) ==
    IF InRaises(ev) THEN "raise"
    ELSE IF ~In(metric, ev) THEN "missing"
    ELSE IF ScoreRaises(metric, ev) THEN "raise"
    ELSE IF ~InRange(metric, ev) THEN "missing"
    ELSE IF BelowThreshold(metric, ev, threshold) THEN "failed"
    ELSE "ok"

\* Mutant: the two lists are attributes of the instance, shared by the
\* calls in progress.
loop_metric_shared(c) ==
    /\ pc[c] = "loop"
    /\ idx[c] <= Len(metrics)
    /\ LET metric == metrics[idx[c]].name
           threshold == metrics[idx[c]].threshold
           outcome == Classify(metric, threshold, evaluation[c])
       IN  /\ IF outcome = "raise"
              THEN /\ result' = [result EXCEPT ![c] = UncaughtTypeError]
                   /\ pc' = [pc EXCEPT ![c] = "done"]
                   /\ UNCHANGED idx
              ELSE /\ idx' = [idx EXCEPT ![c] = @ + 1]
                   /\ UNCHANGED <<result, pc>>
           /\ failed_metrics' =
                  IF outcome = "failed"
                  THEN [d \in Calls |-> IF pc[d] = "loop"
                                        THEN Append(failed_metrics[d], metric)
                                        ELSE failed_metrics[d]]
                  ELSE failed_metrics
           /\ missing_invalid_metrics' =
                  IF outcome = "missing"
                  THEN [d \in Calls |-> IF pc[d] = "loop"
                                        THEN Append(missing_invalid_metrics[d], metric)
                                        ELSE missing_invalid_metrics[d]]
                  ELSE missing_invalid_metrics
    /\ steps' = [steps EXCEPT ![c] =
                    IF idx[c] = 1 THEN Append(@, "decide") ELSE @]
    /\ UNCHANGED <<inst, prompt, raw, llm_response, evaluation>>

\* validate, step 4: one iteration of `for metric in self.metrics`.
loop_metric(c) ==
    /\ pc[c] = "loop"
    /\ idx[c] <= Len(metrics)
    /\ LET metric == metrics[idx[c]].name
           threshold == metrics[idx[c]].threshold
           outcome == Classify(metric, threshold, evaluation[c])
       IN  /\ IF outcome = "raise"
              THEN /\ result' = [result EXCEPT ![c] = UncaughtTypeError]
                   /\ pc' = [pc EXCEPT ![c] = "done"]
                   /\ UNCHANGED idx
              ELSE /\ idx' = [idx EXCEPT ![c] = @ + 1]
                   /\ UNCHANGED <<result, pc>>
           /\ failed_metrics' =
                  IF outcome = "failed"
                  THEN [failed_metrics EXCEPT ![c] = Append(@, metric)]
                  ELSE failed_metrics
           /\ missing_invalid_metrics' =
                  IF outcome = "missing"
                  THEN [missing_invalid_metrics EXCEPT ![c] = Append(@, metric)]
                  ELSE missing_invalid_metrics
    /\ steps' = [steps EXCEPT ![c] =
                    IF idx[c] = 1 THEN Append(@, "decide") ELSE @]
    /\ UNCHANGED <<inst, prompt, raw, llm_response, evaluation>>

\* Mutant: returning the result empties self.metrics.
return_result_consumes(c) ==
    /\ pc[c] = "loop"
    /\ idx[c] > Len(metrics)
    /\ result' = [result EXCEPT ![c] =
                     Verdict(missing_invalid_metrics[c], failed_metrics[c])]
    /\ pc' = [pc EXCEPT ![c] = "done"]
    /\ metrics' = <<>>
    /\ UNCHANGED <<ctor, arg_metrics, arg_max_score, max_score, llm_callable,
                   prompt, raw, llm_response, evaluation, idx,
                   failed_metrics, missing_invalid_metrics, steps>>

\* validate, step 5: the loop is over; FailResult or PassResult.
return_result(c) ==
    /\ pc[c] = "loop"
    /\ idx[c] > Len(metrics)
    /\ result' = [result EXCEPT ![c] =
                     Verdict(missing_invalid_metrics[c], failed_metrics[c])]
    /\ pc' = [pc EXCEPT ![c] = "done"]
    /\ UNCHANGED <<inst, prompt, raw, llm_response, evaluation, idx,
                   failed_metrics, missing_invalid_metrics, steps>>

\* The caller has the result or the exception; the call's frame is gone.
Return(c) ==
    /\ pc[c] = "done"
    /\ pc' = [pc EXCEPT ![c] = "idle"]
    /\ prompt' = [prompt EXCEPT ![c] = NoPrompt]
    /\ raw' = [raw EXCEPT ![c] = Completion("none", NoText)]
    /\ llm_response' = [llm_response EXCEPT ![c] = NoText]
    /\ evaluation' = [evaluation EXCEPT ![c] = NoValue]
    /\ idx' = [idx EXCEPT ![c] = 0]
    /\ failed_metrics' = [failed_metrics EXCEPT ![c] = <<>>]
    /\ missing_invalid_metrics' = [missing_invalid_metrics EXCEPT ![c] = <<>>]
    /\ result' = [result EXCEPT ![c] = NoResult]
    /\ steps' = [steps EXCEPT ![c] = <<>>]
    /\ UNCHANGED inst

\* ------------------------------------------------------ specifications
NoCalls ==
    /\ pc = [c \in Calls |-> "idle"]
    /\ prompt = [c \in Calls |-> NoPrompt]
    /\ raw = [c \in Calls |-> Completion("none", NoText)]
    /\ llm_response = [c \in Calls |-> NoText]
    /\ evaluation = [c \in Calls |-> NoValue]
    /\ idx = [c \in Calls |-> 0]
    /\ failed_metrics = [c \in Calls |-> <<>>]
    /\ missing_invalid_metrics = [c \in Calls |-> <<>>]
    /\ result = [c \in Calls |-> NoResult]
    /\ steps = [c \in Calls |-> <<>>]

\* One caller: construction with any arguments, then validate calls one
\* after the other, the critic answering anything.
Init ==
    /\ ctor = "none"
    /\ arg_metrics = <<>>
    /\ arg_max_score = 0
    /\ metrics = <<>>
    /\ max_score = 0
    /\ llm_callable = ""
    /\ NoCalls

Step(c, answers) ==
    \/ validate_call(c)
    \/ get_llm_response(c, answers)
    \/ json_loads(c)
    \/ loop_metric(c)
    \/ return_result(c)
    \/ Return(c)

Next ==
    \/ Construct
    \/ Step(1, Completions)

Spec == Init /\ [][Next]_vars

\* Several callers on one instance, their steps interleaved.
ConcMetricDicts ==
    {<<[name |-> "a", threshold |-> 2], [name |-> "b", threshold |-> 1]>>,
     <<[name |-> "a", threshold |-> 1], [name |-> "b", threshold |-> 1]>>,
     <<[name |-> "a", threshold |-> 1]>>}
ConcCompletions ==
    {Completion("raise", NoText), Completion("text", Text("garbage", <<>>)),
     Completion("text", Text("number", <<>>))}
        \cup {Completion("text", t) : t \in
                {o \in ObjectTexts : \A i \in 1..Len(o.items) :
                    /\ o.items[i].key \in {"a", "b"}
                    /\ o.items[i].val \in {Num(1), Num(2)}}}

InitConc ==
    /\ ctor = "ok"
    /\ arg_metrics \in ConcMetricDicts
    /\ arg_max_score = 2
    /\ metrics = arg_metrics
    /\ max_score = arg_max_score
    /\ llm_callable = DefaultLlmCallable
    /\ NoCalls

NextConc == \E c \in Calls : Step(c, ConcCompletions)

SpecConc == InitConc /\ [][NextConc]_vars

\* -------------------------------------------------- claims: vocabulary
Range(s) == {s[i] : i \in 1..Len(s)}
MetricNames == {metrics[i].name : i \in 1..Len(metrics)}
ThresholdOf(m) == metrics[CHOOSE i \in 1..Len(metrics) : metrics[i].name = m].threshold

\* The call has ended with a parsed ScoreMapping: a dict of numbers.
IsScoreMapping(ev) ==
    /\ ev.top = "dict"
    /\ \A k \in DOMAIN ev.map : ev.map[k].t = "num"
EndedOnScores(c) == pc[c] = "done" /\ IsScoreMapping(evaluation[c])

Present(c, m) == m \in DOMAIN evaluation[c].map
ScoreOf(c, m) == evaluation[c].map[m].n
ValidScore(c, m) == Present(c, m) /\ ScoreOf(c, m) > 0 /\ ScoreOf(c, m) <= max_score
AbsentOrOutOfRange(c) == {m \in MetricNames : ~ValidScore(c, m)}
ValidBelow(c) == {m \in MetricNames : ValidScore(c, m) /\ ScoreOf(c, m) < ThresholdOf(m)}
IsVerdict(r) == r.kind \in {"Pass", "Fail"}

\* C1: when a metric is absent from the ScoreMapping or scored <= 0 or
\* > max_score, validate returns Fail in the missing_or_invalid category,
\* naming exactly the absent / out-of-range metrics and none of the metrics
\* that are validly scored below their threshold.
C1_MissingInvalidPrecedence ==
    \A c \in Calls :
        (EndedOnScores(c) /\ AbsentOrOutOfRange(c) # {}) =>
            /\ result[c] = FailMissingInvalid(result[c].names)
            /\ Range(result[c].names) = AbsentOrOutOfRange(c)
            /\ Range(result[c].names) \cap ValidBelow(c) = {}

\* A score of exactly 0 for a metric of threshold 0, while another metric is
\* validly scored below its threshold.
C1_Witness ==
    \E c \in Calls :
        /\ EndedOnScores(c)
        /\ \E m \in MetricNames : Present(c, m) /\ ScoreOf(c, m) = 0 /\ ThresholdOf(m) = 0
        /\ ValidBelow(c) # {}
        /\ result[c].kind = "Fail"

\* C2: when every metric is present with 0 < s <= max_score and
\* s >= threshold, validate returns Pass.
C2_AllValidPasses ==
    \A c \in Calls :
        (/\ EndedOnScores(c)
         /\ \A m \in MetricNames : ValidScore(c, m) /\ ScoreOf(c, m) >= ThresholdOf(m))
            => result[c] = PassResult

\* Pass with one score equal to its threshold and one equal to max_score.
C2_Witness ==
    \E c \in Calls :
        /\ EndedOnScores(c)
        /\ result[c] = PassResult
        /\ \E m \in MetricNames : ScoreOf(c, m) = ThresholdOf(m) /\ ScoreOf(c, m) < max_score
        /\ \E m \in MetricNames : ScoreOf(c, m) = max_score

\* C3: when every metric is present with a score in the valid range and
\* some score is below its threshold, validate returns Fail in the
\* below_threshold category, naming exactly the metrics below threshold.
C3_BelowThreshold ==
    \A c \in Calls :
        (/\ EndedOnScores(c)
         /\ AbsentOrOutOfRange(c) = {}
         /\ ValidBelow(c) # {})
            => /\ result[c] = FailBelowThreshold(result[c].names)
               /\ Range(result[c].names) = ValidBelow(c)

\* Fail(below_threshold) with a metric at or above threshold left out, one
\* of the scores being max_score.
C3_Witness ==
    \E c \in Calls :
        /\ EndedOnScores(c)
        /\ AbsentOrOutOfRange(c) = {}
        /\ ValidBelow(c) # {}
        /\ ValidBelow(c) # MetricNames
        /\ \E m \in MetricNames : ScoreOf(c, m) = max_score
        /\ result[c].kind = "Fail"

\* The critic's text is a flat JSON object of string keys and numbers.
IsFlatNumericObject(t) ==
    /\ t.top = "object"
    /\ \A i \in 1..Len(t.items) : t.items[i].val.t = "num"

\* C4: for every critic text that is not a flat JSON object of numbers,
\* validate ends with CriticResponseMalformed: no verdict, no other error.
C4_MalformedIsTypedError ==
    \A c \in Calls :
        (/\ pc[c] = "done"
         /\ raw[c].kind = "text"
         /\ ~IsFlatNumericObject(raw[c].text))
            => result[c] = CriticResponseMalformed

\* C5: construction raises exactly when the metrics mapping is empty or a
\* threshold exceeds max_score; an instance exists, and validate runs, only
\* with a non-empty mapping whose thresholds are all <= max_score.
C5_ConstructionGuard ==
    LET bad == \/ Len(arg_metrics) = 0
               \/ \E i \in 1..Len(arg_metrics) : arg_metrics[i].threshold > arg_max_score
    IN  /\ ctor = "ValueError" => bad /\ metrics = <<>>
        /\ ctor = "ok" => ~bad /\ metrics = arg_metrics /\ max_score = arg_max_score
        /\ ctor = "none" => \A c \in Calls : pc[c] = "idle"
        /\ \A c \in Calls : pc[c] # "idle" =>
              /\ ctor = "ok"
              /\ Len(metrics) > 0
              /\ \A i \in 1..Len(metrics) : metrics[i].threshold <= max_score

\* An instance with a threshold equal to max_score, validate running on it.
C5_Witness ==
    /\ ctor = "ok"
    /\ \E i \in 1..Len(metrics) : metrics[i].threshold = max_score
    /\ \E c \in Calls : pc[c] = "done"

\* Two ScoreMappings agree on the metric names of the MetricSet.
AgreeOnMetrics(c, d) ==
    \A m \in MetricNames :
        /\ Present(c, m) <=> Present(d, m)
        /\ Present(c, m) => ScoreOf(c, m) = ScoreOf(d, m)

\* C6: two validate calls whose ScoreMappings agree on the metric names of
\* the MetricSet return the same verdict with the same reported names,
\* whatever else the mappings hold; a reported name is a metric name.
C6_OnlyMetricKeysMatter ==
    \A c, d \in Calls :
        (EndedOnScores(c) /\ EndedOnScores(d) /\ AgreeOnMetrics(c, d)) =>
            /\ result[c] = result[d]
            /\ Range(result[c].names) \subseteq MetricNames

\* Two mappings that differ (one holds a key that is no metric) and agree
\* on the metrics, both decided.
C6_Witness ==
    \E c, d \in Calls :
        /\ EndedOnScores(c) /\ EndedOnScores(d)
        /\ AgreeOnMetrics(c, d)
        /\ evaluation[c] # evaluation[d]
        /\ DOMAIN evaluation[c].map \ MetricNames # {}
        /\ IsVerdict(result[c])

IsPrefix(s, t) == Len(s) <= Len(t) /\ \A i \in 1..Len(s) : s[i] = t[i]
CountOf(s, x) == Cardinality({i \in 1..Len(s) : s[i] = x})
StepOrder == <<"prompt", "critic", "parse", "decide">>

\* C7: the steps of a validate call occur in the order prompt, critic,
\* parse, decide, the critic being called once; a failed completion ends the
\* call with CriticUnavailable after the critic step, a failed parse ends
\* it with CriticResponseMalformed after the parse step, and neither
\* produces a verdict.
C7_SequentialNoRetry ==
    /\ CriticUnavailable # CriticResponseMalformed
    /\ \A c \in Calls :
        /\ IsPrefix(steps[c], StepOrder)
        /\ CountOf(steps[c], "critic") <= 1
        /\ pc[c] = "done" =>
            /\ CountOf(steps[c], "critic") = 1
            /\ raw[c].kind = "raise" =>
                  result[c] = CriticUnavailable /\ steps[c] = <<"prompt", "critic">>
            /\ (raw[c].kind = "text" /\ raw[c].text.top = "garbage") =>
                  /\ result[c] = CriticResponseMalformed
                  /\ steps[c] = <<"prompt", "critic", "parse">>
            /\ IsVerdict(result[c]) => steps[c] = StepOrder

\* A call ended by a failed completion.
C7_Witness ==
    \E c \in Calls :
        /\ pc[c] = "done"
        /\ raw[c].kind = "raise"
        /\ result[c] = CriticUnavailable

\* The loop of validate run alone on one evaluation: the names of the first
\* n metrics whose outcome is cls, in order.
RECURSIVE NamesWith(_, _, _)
NamesWith(n, ev, cls) ==
    IF n = 0 THEN <<>>
    ELSE LET rest == NamesWith(n - 1, ev, cls)
             m == metrics[n]
         IN  IF Classify(m.name, m.threshold, ev) = cls
             THEN Append(rest, m.name)
             ELSE rest

\* C8: under every interleaving of validate calls on one instance, each
\* call's lists hold what the call alone has collected from its own critic
\* response, and its verdict is the one it would return alone.
C8_CallsDoNotInterfere ==
    \A c \in Calls :
        /\ pc[c] = "loop" =>
            /\ failed_metrics[c] = NamesWith(idx[c] - 1, evaluation[c], "failed")
            /\ missing_invalid_metrics[c] = NamesWith(idx[c] - 1, evaluation[c], "missing")
        /\ (pc[c] = "done" /\ IsVerdict(result[c])) =>
            result[c] = Verdict(NamesWith(Len(metrics), evaluation[c], "missing"),
                                NamesWith(Len(metrics), evaluation[c], "failed"))

\* One call has passed while another, on a different response, is inside
\* its loop with a failed metric collected.
C8_Witness ==
    \E c, d \in Calls :
        /\ c # d
        /\ pc[c] = "done" /\ result[c] = PassResult
        /\ pc[d] = "loop" /\ idx[d] = 2 /\ failed_metrics[d] # <<>>

\* C9: once constructed, no step of validate changes self.metrics,
\* self.max_score or self.llm_callable or the outcome of construction, so
\* the instance stays non-empty with every threshold <= max_score.
C9_InstanceUnchanged ==
    /\ [](ctor = "ok" =>
            /\ Len(metrics) > 0
            /\ \A i \in 1..Len(metrics) : metrics[i].threshold <= max_score)
    /\ [][ctor = "ok" => UNCHANGED <<ctor, metrics, max_score, llm_callable>>]_vars

\* A call that ended with an exception, on a constructed instance.
C9_Witness ==
    /\ ctor = "ok"
    /\ \E c \in Calls : pc[c] = "done" /\ result[c].kind \in {"RuntimeError", "TypeError"}

IsUpperName(k) == k \in {"A", "B"}
\* Key k, as the critic wrote it, is the lowercase name m in some letter case.
SameLetter(k, m) == k = m \/ (k = "A" /\ m = "a") \/ (k = "B" /\ m = "b")

\* C10: a metric whose name holds an uppercase letter is never a key of the
\* parsed mapping, and every verdict on a MetricSet holding one is
\* Fail(missing_or_invalid) naming it, never Pass; a metric with a
\* lowercase name is a key of the parsed mapping whenever the critic wrote
\* its name in either case.
C10_LowercasedLookup ==
    \A c \in Calls :
        (pc[c] = "done" /\ evaluation[c].top = "dict") =>
            /\ \A m \in MetricNames : IsUpperName(m) =>
                /\ ~Present(c, m)
                /\ IsVerdict(result[c]) =>
                    /\ result[c] = FailMissingInvalid(result[c].names)
                    /\ m \in Range(result[c].names)
            /\ \A m \in MetricNames : ~IsUpperName(m) =>
                \A i \in 1..Len(raw[c].text.items) :
                    SameLetter(raw[c].text.items[i].key, m) => Present(c, m)

\* The critic scored "A" validly for the metric named "A", and the verdict
\* still reports it missing.
C10_Witness ==
    \E c \in Calls :
        /\ pc[c] = "done"
        /\ "A" \in MetricNames
        /\ \E i \in 1..Len(raw[c].text.items) :
            /\ raw[c].text.items[i].key = "A"
            /\ raw[c].text.items[i].val = Num(max_score)
        /\ result[c].kind = "Fail"
        /\ "A" \in Range(result[c].names)

====
